---- MODULE Spec2Model ----
(***************************************************************************)
(* A model of the live-transcription client of Lexiconic:                  *)
(* RealtimeTranscriber (src/src/realtime_transcription_test.py), one       *)
(* instance, driven through its public methods.                            *)
(*                                                                         *)
(* Scheduling.  connect, cleanup, stream_file, listen_for_responses and    *)
(* _audio_capture_loop are coroutines of one asyncio event loop: the code  *)
(* between two awaits runs without another coroutine in between.  Each     *)
(* action below is one such block.  The one block that is split is the     *)
(* capture loop's: audio_stream.read blocks the loop's thread, and         *)
(* stop_recording is also called from another thread                       *)
(* (LexiconicApp.stopRealtimeTranscription_), so it can fall before or     *)
(* after the read.  While a capture loop is inside its block no other      *)
(* coroutine runs (LoopFree).                                              *)
(***************************************************************************)
EXTENDS Integers, Sequences, FiniteSets, TLC

\* ------------------------------------------------------------------ bounds
MaxInbound  == 3   \* frames the service delivers to the receive loop
MaxFrames   == 2   \* audio frames the capture device and the decoder yield
MaxConnects == 1   \* calls of connect()
MaxLoops    == 1   \* calls of start_recording() (capture tasks created)
MaxReconnects == 1 \* further calls of connect() on the same transcriber
MaxRestarts == 1   \* further calls of start_recording() on the same transcriber
MaxWorkers  == 2   \* start requests the app accepts (worker threads)
MaxCalls    == 4   \* menu requests (start, stop, toggle)
MaxAppends  == 2   \* transcripts a session of the app receives
MaxSnapshots == 2  \* calls of get_transcriptions()
MaxEdits    == 1   \* changes a consumer makes to a list it was given
MaxReads    == 4   \* reads of the decoder pipe that return data

ConnIds == 1..(MaxConnects + MaxReconnects)
WorkerIds == 1..MaxWorkers
LoopIds == 1..(MaxLoops + MaxRestarts)
FileSender == 0            \* stream_file, as a sender of frames
Senders == LoopIds \cup {FileSender}

\* ------------------------------------------------------- wire vocabulary
T_session_update == "session.update"
T_append  == "input_audio_buffer.append"
T_commit  == "input_audio_buffer.commit"

T_created   == "session.created"
T_started   == "input_audio_buffer.speech_started"
T_stopped   == "input_audio_buffer.speech_stopped"
T_completed == "conversation.item.input_audio_transcription.completed"
T_failed    == "conversation.item.input_audio_transcription.failed"
T_error     == "error"
T_other     == "response.done"   \* a type the handler has no branch for

\* A key that the JSON object does not carry.
MISSING == "<missing>"

EventTypes == {T_created, T_started, T_stopped, T_completed, T_failed,
               T_error, T_other, MISSING}
Transcripts == {MISSING, "", "hello", "world"}

\* The values json.loads can return: an object (a dict, with the two keys the
\* handler reads), or a value that is no dict.
JsonObject(t, x) == [kind |-> "object", type |-> t, transcript |-> x]
JsonObjects ==
    {JsonObject(t, MISSING) : t \in EventTypes \ {T_completed}}
    \cup {JsonObject(T_completed, x) : x \in Transcripts}
JsonNonObjects ==
    {[kind |-> k, type |-> MISSING, transcript |-> MISSING] :
        k \in {"array", "number", "string", "null"}}
JsonValues == JsonObjects \cup JsonNonObjects

\* The text of an inbound TEXT message: JSON text of a value, or text that is
\* not JSON.
NotJson == [wellformed |-> FALSE, value |-> JsonObject(MISSING, MISSING)]
Texts == {[wellformed |-> TRUE, value |-> v] : v \in JsonValues} \cup {NotJson}

\* What the iteration over the websocket yields to listen_for_responses.
WsText(t) == [type |-> "TEXT", data |-> t]
WsOther(k) == [type |-> k, data |-> NotJson]
\* In the history of reads, a read that raised instead of returning.
ReadRaised == WsOther("raised")

VARIABLES
    websocket,             \* self.websocket: 0 is None, else a connection id
    session,               \* self.session: 0 is "no such attribute"
    wsState,               \* per connection: "new", "open", "broken", "closed"
    sessOpen,              \* the aiohttp sessions that are open
    wire,                  \* per connection: the messages written to it
    audio_stream,          \* "none", "active", "stopped", "closed"
    pyaudio_instance,      \* "none", "live", "terminated"
    is_recording,
    transcription_buffer,
    cap,                   \* per capture task: pc, the frame it holds, and
                           \*          whether a read of the device has raised
    listen,                \* the receive task: pc and the websocket it reads
    drv,                   \* the caller: "idle" or inside an awaiting method
    stream,                \* the stream_file call: pc and its send_commit
    produced,              \* history: per sender, the frames it produced
    startConn,             \* history: per sender, the connection open at start
    nRead,                 \* history: reads of the receive loop so far
    lastRead,              \* history: what the latest read gave
    nHandled,              \* history: calls of _handle_response so far
    completed,             \* history: the transcript of each completed event
                           \*          given to _handle_response, in order
    reports,               \* history: transport conditions the loop printed
    nConnects,             \* history: calls of connect()
    cleaned,               \* history: a cleanup() call has returned
    reused,                \* history: cleanup() applied stop_stream, close or
                           \*          terminate to a capture resource that an
                           \*          earlier cleanup() had released
    raised,                \* history: a cleanup() call raised
    drained,               \* history: a transcript was appended after the
                           \*          stop of a recording that had started
    returned,              \* the list the latest get_transcriptions() gave
                           \*          its caller: which object, and its items
    proc,                  \* the decoder of stream_file: the bytes left in
                           \*          its pipe and the sizes of the frames sent
    \* LexiconicApp
    api_key,               \* NoApp before __init__, then the configured key
    is_realtime_active,
    realtime_transcriber,  \* 0 (None), or the transcriber of that worker
    worker,                \* per worker thread: pc and the transcriber whose
                           \*          coroutine it awaits
    tr,                    \* per transcriber of the app: its connection and
                           \*          its recording flag
    last_transcription,    \* "" or the latest transcript the app stored
    last_pasted_length,
    typed,                 \* history: the texts auto-paste has typed since
                           \*          the latest accepted start, in order
    pasteable,             \* history: since then every auto-paste found a
                           \*          paste-eligible frontmost application
                           \*          and its keystroke script succeeded
    lastCall,              \* history: the latest menu request and its outcome
    nCalls                 \* history: menu requests so far

vars == <<websocket, session, wsState, sessOpen, wire, audio_stream,
          pyaudio_instance, is_recording, transcription_buffer, cap, listen,
          drv, stream, produced, startConn, nRead, lastRead, nHandled,
          completed, reports, nConnects, cleaned, reused, raised, drained,
          returned, proc,
          api_key, is_realtime_active, realtime_transcriber, worker, tr,
          last_transcription, last_pasted_length, typed, pasteable,
          lastCall, nCalls>>

connVars  == <<websocket, session, wsState, sessOpen, nConnects>>
audioVars == <<audio_stream, pyaudio_instance>>
history   == <<nRead, lastRead, nHandled, completed>>
recvVars  == <<listen, history, reports>>
sendVars  == <<cap, stream, produced, startConn>>
logVars   == <<cleaned, reused, raised, drained>>
auxVars   == <<returned, proc>>
transcriberVars == <<connVars, wire, audioVars, is_recording,
                     transcription_buffer, recvVars, sendVars, drv, logVars,
                     auxVars>>
pasteVars == <<last_pasted_length, typed, pasteable>>
appVars   == <<api_key, is_realtime_active, realtime_transcriber, worker, tr,
               last_transcription, pasteVars, lastCall, nCalls>>

\* The read gives message m: the history of reads after it.
read(m) == /\ nRead' = nRead + 1
           /\ lastRead' = m

\* The app has not been constructed.
NoApp == "<no app>"
\* os.getenv("OPENAI_API_KEY") found no key.
NoKey == "<None>"
KeyValues == {NoKey, "sk-key"}
\* A transcriber the app has not constructed.
NoTranscriber == [conn |-> "absent", is_recording |-> FALSE, buffer |-> <<>>,
                  audio_stream |-> "none"]
\* A worker thread that was not started.
NoWorker == [pc |-> "none", on |-> 0, listens |-> 0, failed |-> FALSE,
             captures |-> 0, reading |-> FALSE]

\* No list was handed out; stream_file has started no decoder.
NoList == [obj |-> "none", items |-> <<>>, calls |-> 0, edits |-> 0]
NoStream == [pc |-> "none", send_commit |-> FALSE, realtime_factor |-> 1,
             returncode |-> "None"]
NoProc == [pc |-> "none", left |-> 0, frames |-> <<>>, total |-> 0]

\* ------------------------------------------------------------ __init__
Init ==
    /\ websocket = 0
    /\ session = 0
    /\ wsState = [c \in ConnIds |-> "new"]
    /\ sessOpen = {}
    /\ wire = [c \in ConnIds |-> <<>>]
    /\ audio_stream = "none"
    /\ pyaudio_instance = "none"
    /\ is_recording = FALSE
    /\ transcription_buffer = <<>>
    /\ cap = [l \in LoopIds |-> [pc |-> "none", n |-> 0, err |-> FALSE]]
    /\ listen = [pc |-> "none", ws |-> 0]
    /\ drv = "idle"
    /\ stream = NoStream
    /\ produced = [s \in Senders |-> <<>>]
    /\ startConn = [s \in Senders |-> 0]
    /\ nRead = 0
    /\ lastRead = WsOther("none")
    /\ nHandled = 0
    /\ completed = <<>>
    /\ reports = 0
    /\ nConnects = 0
    /\ cleaned = FALSE
    /\ reused = FALSE
    /\ raised = FALSE
    /\ drained = FALSE
    /\ returned = NoList
    /\ proc = NoProc
    /\ api_key = NoApp
    /\ is_realtime_active = FALSE
    /\ realtime_transcriber = 0
    /\ worker = [w \in WorkerIds |-> NoWorker]
    /\ tr = [t \in WorkerIds |-> NoTranscriber]
    /\ last_transcription = ""
    /\ last_pasted_length = 0
    /\ typed = <<>>
    /\ pasteable = TRUE
    /\ lastCall = [op |-> "none", outcome |-> "none"]
    /\ nCalls = 0

\* No capture task is inside its block: the event loop can run another
\* coroutine.
LoopFree == \A l \in LoopIds : cap[l].pc \notin {"read", "send"}

\* The guard without its `not self.websocket.closed`.
WsUsable_ignores_closed == websocket # 0

\* `self.websocket and not self.websocket.closed`
WsUsable == websocket # 0 /\ wsState[websocket] # "closed"

\* websocket.send_str(msg) on connection c: the message is written when the
\* transport is up; on a broken or closed connection the call raises and
\* nothing is written.
send_str_ok(c) == wsState[c] = "open"
send_str(c, msg) == [wire EXCEPT ![c] = Append(@, msg)]

ConfigMsg == [type |-> T_session_update, src |-> 0, n |-> 0]
AppendMsg(s, k) == [type |-> T_append, src |-> s, n |-> k]
CommitMsg == [type |-> T_commit, src |-> 0, n |-> 0]

\* -------------------------------------------------------------- connect
\* self.session = aiohttp.ClientSession(); then the await of ws_connect.
connect_begin(limit) ==
    /\ drv = "idle" /\ LoopFree
    /\ nConnects < limit
    /\ nConnects' = nConnects + 1
    /\ session' = nConnects + 1
    /\ sessOpen' = sessOpen \cup {nConnects + 1}
    /\ drv' = "connect"
    /\ UNCHANGED <<appVars, logVars, auxVars>>
    /\ UNCHANGED <<websocket, wsState, wire, audioVars, is_recording,
                   transcription_buffer, recvVars, sendVars>>

ConnectBegin == connect_begin(MaxConnects)

\* connect() called again on a transcriber on which it was already called:
\* the method has no guard, it makes a new session and a new connection.
ConnectAgain ==
    /\ nConnects >= MaxConnects
    /\ connect_begin(MaxConnects + MaxReconnects)

\* connect that returns with the websocket assigned and open, the
\* configuration not yet written.
ConnectEnd_config_not_sent ==
    /\ drv = "connect" /\ LoopFree
    /\ drv' = "idle"
    /\ \/ /\ websocket' = session
          /\ wsState' = [wsState EXCEPT ![session] = "open"]
          /\ UNCHANGED wire
       \/ UNCHANGED <<websocket, wsState, wire>>
    /\ UNCHANGED <<appVars, logVars, auxVars>>
    /\ UNCHANGED <<session, sessOpen, nConnects, audioVars, is_recording,
                   transcription_buffer, recvVars, sendVars>>

\* ws_connect returns: the websocket is assigned and the configuration is sent
\* in the same block.  Or ws_connect raises, or send_str raises on a transport
\* that is already down; connect re-raises to the caller.
ConnectEnd ==
    /\ drv = "connect" /\ LoopFree
    /\ drv' = "idle"
    /\ \/ /\ websocket' = session
          /\ wsState' = [wsState EXCEPT ![session] = "open"]
          /\ wire' = send_str(session, ConfigMsg)
       \/ /\ websocket' = session
          /\ wsState' = [wsState EXCEPT ![session] = "broken"]
          /\ UNCHANGED wire
       \/ UNCHANGED <<websocket, wsState, wire>>
    /\ UNCHANGED <<appVars, logVars, auxVars>>
    /\ UNCHANGED <<session, sessOpen, nConnects, audioVars, is_recording,
                   transcription_buffer, recvVars, sendVars>>

\* ---------------------------------------------------------- setup_audio
\* pyaudio missing: raises before anything is assigned.  Otherwise a PyAudio
\* instance is created and the stream opened; open may raise.
setup_audio ==
    /\ drv = "idle" /\ LoopFree
    /\ \/ UNCHANGED audioVars
       \/ /\ pyaudio_instance' = "live"
          /\ audio_stream' = "active"
       \/ /\ pyaudio_instance' = "live"
          /\ UNCHANGED audio_stream
    /\ UNCHANGED <<appVars, logVars, auxVars>>
    /\ UNCHANGED <<connVars, wire, is_recording, transcription_buffer,
                   recvVars, sendVars, drv>>

\* ------------------------------------------------------ start_recording
\* is_recording is set and a new _audio_capture_loop task is created.
start_recording_task(limit) ==
    /\ drv = "idle" /\ LoopFree
    /\ \E l \in LoopIds :
        /\ l <= limit
        /\ cap[l].pc = "none"
        /\ \A k \in LoopIds : k < l => cap[k].pc # "none"
        /\ cap' = [cap EXCEPT ![l].pc = "ready"]
        /\ startConn' = [startConn EXCEPT
                            ![l] = IF WsUsable /\ wsState[websocket] = "open"
                                   THEN websocket ELSE 0]
    /\ is_recording' = TRUE
    /\ UNCHANGED <<appVars, logVars, auxVars>>
    /\ UNCHANGED <<connVars, wire, audioVars, transcription_buffer, recvVars,
                   produced, stream, drv>>

start_recording == start_recording_task(MaxLoops)

\* start_recording() called again on a transcriber on which it was already
\* called: the method has no guard, it creates one more capture task.
StartRecordingAgain ==
    /\ cap[MaxLoops].pc # "none"
    /\ start_recording_task(MaxLoops + MaxRestarts)

\* ------------------------------------------------------- stop_recording
\* audio_stream.stop_stream() returns at once on a stream that is not running.
stop_stream(s) == IF s = "active" THEN "stopped" ELSE s

stop_recording_effect ==
    /\ is_recording' = FALSE
    /\ audio_stream' = stop_stream(audio_stream)

\* stop_recording that also ends the receive task.
stop_recording_ends_listening ==
    /\ stop_recording_effect
    /\ listen' = [listen EXCEPT !.pc = IF @ = "waiting" THEN "cancelled" ELSE @]
    /\ UNCHANGED <<appVars, logVars, auxVars>>
    /\ UNCHANGED <<connVars, wire, pyaudio_instance, transcription_buffer,
                   history, reports, sendVars, drv>>

\* Called by the owner of the event loop (main) or from another thread
\* (LexiconicApp.stopRealtimeTranscription_), at any time.
stop_recording ==
    /\ stop_recording_effect
    /\ UNCHANGED <<appVars, logVars, auxVars>>
    /\ UNCHANGED <<connVars, wire, pyaudio_instance, transcription_buffer,
                   recvVars, sendVars, drv>>

\* _send_audio_data that also requires the recording flag.
_send_audio_data_if_recording(msg) ==
    IF is_recording /\ WsUsable /\ send_str_ok(websocket)
    THEN send_str(websocket, msg)
    ELSE wire

\* -------------------------------------------------- _send_audio_data
\* _send_audio_data that writes without looking at the state of the
\* connection.
_send_audio_data_unchecked(msg) ==
    IF websocket # 0
    THEN send_str(websocket, msg)
    ELSE wire

\* if self.websocket and not self.websocket.closed: send_str; an exception of
\* send_str is caught and printed, the message is dropped.
_send_audio_data(msg) ==
    IF WsUsable /\ send_str_ok(websocket)
    THEN send_str(websocket, msg)
    ELSE wire

RECURSIVE SumLen(_, _)
SumLen(f, S) ==
    IF S = {} THEN 0
    ELSE LET x == CHOOSE y \in S : TRUE IN Len(f[x]) + SumLen(f, S \ {x})

FramesProduced == SumLen(produced, Senders)

\* The loop with `while True:` for `while self.is_recording:`.
CaptureCheck_ignores_flag(l) ==
    /\ cap[l].pc = "ready" /\ LoopFree
    /\ \/ /\ audio_stream = "none"
          /\ UNCHANGED cap
       \/ /\ audio_stream # "none"
          /\ FramesProduced < MaxFrames
          /\ cap' = [cap EXCEPT ![l].pc = "read"]
    /\ UNCHANGED <<appVars, logVars, auxVars>>
    /\ UNCHANGED <<connVars, wire, audioVars, is_recording,
                   transcription_buffer, recvVars, produced, startConn, stream, drv>>

\* ------------------------------------------------ _audio_capture_loop
\* `while self.is_recording:` and `if self.audio_stream:`.  With the flag
\* cleared the task ends; with no stream it sleeps 0.01 s and checks again.
CaptureCheck(l) ==
    /\ cap[l].pc = "ready" /\ LoopFree
    /\ \/ /\ ~is_recording
          /\ cap' = [cap EXCEPT ![l].pc = "done"]
       \/ /\ is_recording /\ audio_stream = "none"
          /\ UNCHANGED cap
       \/ /\ is_recording /\ audio_stream # "none"
          /\ FramesProduced < MaxFrames
          /\ cap' = [cap EXCEPT ![l].pc = "read"]
    /\ UNCHANGED <<appVars, logVars, auxVars>>
    /\ UNCHANGED <<connVars, wire, audioVars, is_recording,
                   transcription_buffer, recvVars, produced, startConn, stream, drv>>

\* audio_stream.read(CHUNK_SIZE): one frame from a running stream.  The read
\* raises on a stream that was stopped or closed, and it can raise on a
\* running one (the device fails): `except Exception` prints, sleeps 0.1 s
\* and the loop goes on.
CaptureRead(l) ==
    /\ cap[l].pc = "read"
    /\ \/ /\ audio_stream = "active"
          /\ produced' = [produced EXCEPT ![l] = Append(@, Len(@) + 1)]
          /\ cap' = [cap EXCEPT ![l].pc = "send",
                                ![l].n = Len(produced[l]) + 1]
       \/ /\ cap' = [cap EXCEPT ![l].pc = "ready", ![l].err = TRUE]
          /\ UNCHANGED produced
    /\ UNCHANGED <<appVars, logVars, auxVars>>
    /\ UNCHANGED <<connVars, wire, audioVars, is_recording,
                   transcription_buffer, recvVars, startConn, stream, drv>>

\* The append event is built and sent when the websocket is usable, then the
\* loop sleeps 0.01 s.
CaptureSend(l) ==
    /\ cap[l].pc = "send"
    /\ wire' = IF WsUsable THEN _send_audio_data(AppendMsg(l, cap[l].n)) ELSE wire
    /\ cap' = [cap EXCEPT ![l].pc = "ready"]
    /\ UNCHANGED <<appVars, logVars, auxVars>>
    /\ UNCHANGED <<connVars, audioVars, is_recording, transcription_buffer,
                   recvVars, produced, startConn, stream, drv>>

\* ------------------------------------------------------- peer, transport
\* The transport of an open connection goes down: from then on send_str
\* raises.
PeerDrop(c) ==
    /\ wsState[c] = "open"
    /\ wsState' = [wsState EXCEPT ![c] = "broken"]
    /\ UNCHANGED <<appVars, logVars, auxVars>>
    /\ UNCHANGED <<websocket, session, sessOpen, nConnects, wire, audioVars,
                   is_recording, transcription_buffer, recvVars, sendVars, drv>>

\* ------------------------------------------------------------ json.loads
\* The parse of a text: the value, or JSONDecodeError for text that is not
\* JSON.
json_loads(text) ==
    IF text.wellformed
    THEN [ok |-> TRUE, data |-> text.value]
    ELSE [ok |-> FALSE, data |-> text.value]

\* data.get(key, default)
dict_get(data, key, default) ==
    IF data[key] = MISSING THEN default ELSE data[key]

\* _handle_response without `if transcript:`.
_handle_response_no_guard(data, buffer) ==
    IF data.kind # "object"
    THEN [raised |-> TRUE, buffer |-> buffer]
    ELSE IF dict_get(data, "type", "") = T_completed
         THEN [raised |-> FALSE,
               buffer |-> Append(buffer, dict_get(data, "transcript", ""))]
         ELSE [raised |-> FALSE, buffer |-> buffer]

\* _handle_response that assigns the buffer instead of appending to it.
_handle_response_overwrites(data, buffer) ==
    IF data.kind # "object"
    THEN [raised |-> TRUE, buffer |-> buffer]
    ELSE IF /\ dict_get(data, "type", "") = T_completed
            /\ dict_get(data, "transcript", "") # ""
         THEN [raised |-> FALSE, buffer |-> <<dict_get(data, "transcript", "")>>]
         ELSE [raised |-> FALSE, buffer |-> buffer]

\* _handle_response that raises for the two error events.
_handle_response_error_raises(data, buffer) ==
    IF data.kind # "object"
    THEN [raised |-> TRUE, buffer |-> buffer]
    ELSE IF dict_get(data, "type", "") \in {T_failed, T_error}
         THEN [raised |-> TRUE, buffer |-> buffer]
         ELSE IF /\ dict_get(data, "type", "") = T_completed
                 /\ dict_get(data, "transcript", "") # ""
              THEN [raised |-> FALSE,
                    buffer |-> Append(buffer, dict_get(data, "transcript", ""))]
              ELSE [raised |-> FALSE, buffer |-> buffer]

\* _handle_response that reads data["type"]: KeyError without the key.
_handle_response_type_required(data, buffer) ==
    IF data.kind # "object" \/ data.type = MISSING
    THEN [raised |-> TRUE, buffer |-> buffer]
    ELSE IF /\ data.type = T_completed
            /\ dict_get(data, "transcript", "") # ""
         THEN [raised |-> FALSE,
               buffer |-> Append(buffer, dict_get(data, "transcript", ""))]
         ELSE [raised |-> FALSE, buffer |-> buffer]

\* ---------------------------------------------------- _handle_response
\* The new transcription_buffer, or raised: data.get on a value that is not
\* a dict raises AttributeError.
_handle_response(data, buffer) ==
    IF data.kind # "object"
    THEN [raised |-> TRUE, buffer |-> buffer]
    ELSE LET event_type == dict_get(data, "type", "")
             transcript == dict_get(data, "transcript", "")
         IN  IF event_type = T_created THEN [raised |-> FALSE, buffer |-> buffer]
             ELSE IF event_type = T_started THEN [raised |-> FALSE, buffer |-> buffer]
             ELSE IF event_type = T_stopped THEN [raised |-> FALSE, buffer |-> buffer]
             ELSE IF event_type = T_completed
                  THEN [raised |-> FALSE,
                        buffer |-> IF transcript # ""
                                   THEN Append(buffer, transcript)
                                   ELSE buffer]
             ELSE IF event_type = T_failed THEN [raised |-> FALSE, buffer |-> buffer]
             ELSE IF event_type = T_error THEN [raised |-> FALSE, buffer |-> buffer]
             ELSE [raised |-> FALSE, buffer |-> buffer]

\* def get_transcriptions(self): return self.transcription_buffer.copy()
get_transcriptions == [i \in 1..Len(transcription_buffer) |-> transcription_buffer[i]]

\* `return self.transcription_buffer`: the caller is given the buffer itself.
returned_list_is_buffer == [obj |-> "buffer", items |-> <<>>]

\* The object the method returns: list.copy() makes a new list that holds
\* the items of the buffer.
returned_list == [obj |-> "copy", items |-> get_transcriptions]

\* The items of the list the caller holds: its own when it is a copy, those
\* of the buffer when it is the buffer.
Held == IF returned.obj = "buffer" THEN transcription_buffer ELSE returned.items

\* The caller calls get_transcriptions() and keeps the list.
GetTranscriptions ==
    /\ LoopFree
    /\ returned.calls < MaxSnapshots
    /\ returned' = [obj |-> returned_list.obj, items |-> returned_list.items,
                    calls |-> returned.calls + 1, edits |-> 0]
    /\ UNCHANGED <<appVars, logVars, proc>>
    /\ UNCHANGED <<connVars, wire, audioVars, is_recording,
                   transcription_buffer, recvVars, sendVars, drv>>

\* What a consumer can make of a list: append an entry of its own, or clear
\* it.
Edits(list) == {Append(list, "edit"), <<>>} \ {list}

\* The consumer changes the list it was given, in place.
ConsumerChanges(new) ==
    /\ LoopFree
    /\ returned.obj # "none"
    /\ returned.edits < MaxEdits
    /\ new \in Edits(Held)
    /\ IF returned.obj = "buffer"
       THEN /\ transcription_buffer' = new
            /\ returned' = [returned EXCEPT !.edits = @ + 1]
       ELSE /\ returned' = [returned EXCEPT !.items = new, !.edits = @ + 1]
            /\ UNCHANGED transcription_buffer
    /\ UNCHANGED <<appVars, logVars, proc>>
    /\ UNCHANGED <<connVars, wire, audioVars, is_recording, recvVars,
                   sendVars, drv>>

\* ------------------------------------------------ listen_for_responses
\* asyncio.create_task(listen_for_responses()): `async for msg in
\* self.websocket` takes the websocket of that moment; over None it raises
\* TypeError, which the outer handler prints.
ListenStart ==
    /\ drv = "idle" /\ LoopFree
    /\ listen.pc = "none"
    /\ IF websocket = 0
       THEN /\ listen' = [pc |-> "done", ws |-> 0]
            /\ reports' = reports + 1
       ELSE /\ listen' = [pc |-> "waiting", ws |-> websocket]
            /\ UNCHANGED reports
    /\ UNCHANGED <<appVars, logVars, auxVars>>
    /\ UNCHANGED <<connVars, wire, audioVars, is_recording,
                   transcription_buffer, history, sendVars, drv>>

\* The body without the inner try: JSONDecodeError reaches the outer handler.
on_text_decode_error_fatal(text, buffer) ==
    LET parsed == json_loads(text)
        res    == _handle_response(parsed.data, buffer)
    IN  IF ~parsed.ok \/ res.raised
        THEN [pc |-> "done", buffer |-> buffer, dispatched |-> parsed.ok,
              reported |-> TRUE]
        ELSE [pc |-> "waiting", buffer |-> res.buffer, dispatched |-> TRUE,
              reported |-> FALSE]

\* The body of the loop for one TEXT message: what becomes of the loop, of
\* the buffer, whether _handle_response was called and whether the outer
\* handler printed.
on_text(text, buffer) ==
    LET parsed == json_loads(text)
        res    == _handle_response(parsed.data, buffer)
    IN  IF ~parsed.ok
        THEN \* except json.JSONDecodeError: print, next message
             [pc |-> "waiting", buffer |-> buffer, dispatched |-> FALSE,
              reported |-> FALSE]
        ELSE IF res.raised
        THEN \* the outer `except Exception` prints and the loop is left
             [pc |-> "done", buffer |-> buffer, dispatched |-> TRUE,
              reported |-> TRUE]
        ELSE [pc |-> "waiting", buffer |-> res.buffer, dispatched |-> TRUE,
              reported |-> FALSE]

\* data is an object of the completed type.
IsCompleted(data) == data.kind = "object" /\ data.type = T_completed

\* The receive task that cannot run while the caller is inside stream_file:
\* a stream_file that does not yield to the event loop.
ListenText_not_while_streaming(text) ==
    LET out == on_text(text, transcription_buffer)
    IN  /\ listen.pc = "waiting" /\ LoopFree
        /\ drv # "stream"
        /\ wsState[listen.ws] = "open"
        /\ nRead < MaxInbound
        /\ read(WsText(text))
        /\ listen' = [listen EXCEPT !.pc = out.pc]
        /\ transcription_buffer' = out.buffer
        /\ nHandled' = IF out.dispatched THEN nHandled + 1 ELSE nHandled
        /\ completed' = IF out.dispatched /\ IsCompleted(json_loads(text).data)
                        THEN Append(completed, json_loads(text).data.transcript)
                        ELSE completed
        /\ reports' = IF out.reported THEN reports + 1 ELSE reports
        /\ drained' = (\/ drained
                       \/ /\ out.buffer # transcription_buffer
                          /\ ~is_recording
                          /\ \E l \in LoopIds : cap[l].pc # "none")
        /\ UNCHANGED <<appVars, cleaned, reused, raised, auxVars>>
        /\ UNCHANGED <<connVars, wire, audioVars, is_recording, sendVars, drv>>

ListenText(text) ==
    LET out == on_text(text, transcription_buffer)
    IN  /\ listen.pc = "waiting" /\ LoopFree
        /\ wsState[listen.ws] = "open"
        /\ nRead < MaxInbound
        /\ read(WsText(text))
        /\ listen' = [listen EXCEPT !.pc = out.pc]
        /\ transcription_buffer' = out.buffer
        /\ nHandled' = IF out.dispatched THEN nHandled + 1 ELSE nHandled
        /\ completed' = IF out.dispatched /\ IsCompleted(json_loads(text).data)
                        THEN Append(completed, json_loads(text).data.transcript)
                        ELSE completed
        /\ reports' = IF out.reported THEN reports + 1 ELSE reports
        /\ drained' = (\/ drained
                       \/ /\ out.buffer # transcription_buffer
                          /\ ~is_recording
                          /\ \E l \in LoopIds : cap[l].pc # "none")
        /\ UNCHANGED <<appVars, cleaned, reused, raised, auxVars>>
        /\ UNCHANGED <<connVars, wire, audioVars, is_recording, sendVars, drv>>

\* A message of a type the loop has no branch for (BINARY, PING, ...).
ListenIgnored ==
    /\ listen.pc = "waiting" /\ LoopFree
    /\ wsState[listen.ws] = "open"
    /\ nRead < MaxInbound
    /\ read(WsOther("BINARY"))
    /\ UNCHANGED <<appVars, logVars, auxVars>>
    /\ UNCHANGED <<connVars, wire, audioVars, is_recording,
                   transcription_buffer, listen, nHandled, completed, reports,
                   sendVars, drv>>

\* The ERROR and CLOSE branches without their `break`.
ListenTransport_no_break(kind) ==
    /\ listen.pc = "waiting" /\ LoopFree
    /\ wsState[listen.ws] \in {"open", "broken"}
    /\ nRead < MaxInbound
    /\ read(WsOther(kind))
    /\ reports' = reports + 1
    /\ wsState' = [wsState EXCEPT ![listen.ws] = "broken"]
    /\ UNCHANGED <<appVars, logVars, auxVars>>
    /\ UNCHANGED <<websocket, session, sessOpen, nConnects, wire, audioVars,
                   is_recording, transcription_buffer, listen, nHandled,
                   completed, sendVars, drv>>

\* msg.type ERROR or CLOSE: print and break.  The connection is closed by
\* the time the message is delivered.
ListenTransport(kind) ==
    /\ listen.pc = "waiting" /\ LoopFree
    /\ wsState[listen.ws] \in {"open", "broken"}
    /\ nRead < MaxInbound
    /\ read(WsOther(kind))
    /\ listen' = [listen EXCEPT !.pc = "done"]
    /\ reports' = reports + 1
    /\ wsState' = [wsState EXCEPT ![listen.ws] = "closed"]
    /\ UNCHANGED <<appVars, logVars, auxVars>>
    /\ UNCHANGED <<websocket, session, sessOpen, nConnects, wire, audioVars,
                   is_recording, transcription_buffer, nHandled, completed,
                   sendVars, drv>>

\* The read raises: the outer handler prints and the coroutine returns.
ListenRaises ==
    /\ listen.pc = "waiting" /\ LoopFree
    /\ wsState[listen.ws] \in {"open", "broken"}
    /\ nRead < MaxInbound
    /\ read(ReadRaised)
    /\ listen' = [listen EXCEPT !.pc = "done"]
    /\ reports' = reports + 1
    /\ wsState' = [wsState EXCEPT ![listen.ws] = "broken"]
    /\ UNCHANGED <<appVars, logVars, auxVars>>
    /\ UNCHANGED <<websocket, session, sessOpen, nConnects, wire, audioVars,
                   is_recording, transcription_buffer, nHandled, completed,
                   sendVars, drv>>

\* The websocket was closed on this side: the iteration ends, the loop is
\* left without a message.
ListenExhausted ==
    /\ listen.pc = "waiting" /\ LoopFree
    /\ wsState[listen.ws] = "closed"
    /\ listen' = [listen EXCEPT !.pc = "done"]
    /\ UNCHANGED <<appVars, logVars, auxVars>>
    /\ UNCHANGED <<connVars, wire, audioVars, is_recording,
                   transcription_buffer, history, reports, sendVars,
                   drv>>

\* response_task.cancel()
ListenCancel ==
    /\ drv = "idle" /\ LoopFree
    /\ listen.pc = "waiting"
    /\ listen' = [listen EXCEPT !.pc = "cancelled"]
    /\ UNCHANGED <<appVars, logVars, auxVars>>
    /\ UNCHANGED <<connVars, wire, audioVars, is_recording,
                   transcription_buffer, history, reports, sendVars,
                   drv>>

\* -------------------------------------------------------------- cleanup
close_stream(s) == IF s = "none" THEN s ELSE "closed"
terminate(p) == IF p = "none" THEN p ELSE "terminated"

\* The capture stream, or the audio subsystem, is one that a cleanup() has
\* released: the attributes are never reset to None, so the guards
\* `if self.audio_stream:` and `if self.pyaudio_instance:` stay true.
StreamReleased == audio_stream = "closed"
AudioReleased == audio_stream = "closed" \/ pyaudio_instance = "terminated"

\* stop_recording(), then websocket.close() when the websocket is usable
\* (the websocket counts as closed from the call on), else session.close()
\* when there is a session, else the rest of the method.  stop_stream() on
\* a stream that was closed is the audio library's to answer: it returns, or
\* it raises and cleanup() is left with nothing else done.
CleanupBegin ==
    /\ drv = "idle" /\ LoopFree
    /\ is_recording' = FALSE
    /\ \/ /\ StreamReleased
          /\ reused' = TRUE
          /\ raised' = TRUE
          /\ UNCHANGED <<wsState, sessOpen, drv, audioVars, cleaned>>
       \/ /\ raised' = raised
          /\ IF WsUsable
             THEN /\ wsState' = [wsState EXCEPT ![websocket] = "closed"]
                  /\ drv' = "cleanup_ws"
                  /\ audio_stream' = stop_stream(audio_stream)
                  /\ reused' = (reused \/ StreamReleased)
                  /\ UNCHANGED <<sessOpen, pyaudio_instance, cleaned>>
             ELSE IF session # 0
             THEN /\ sessOpen' = sessOpen \ {session}
                  /\ drv' = "cleanup_session"
                  /\ audio_stream' = stop_stream(audio_stream)
                  /\ reused' = (reused \/ StreamReleased)
                  /\ UNCHANGED <<wsState, pyaudio_instance, cleaned>>
             ELSE /\ audio_stream' = close_stream(stop_stream(audio_stream))
                  /\ pyaudio_instance' = terminate(pyaudio_instance)
                  /\ reused' = (reused \/ AudioReleased)
                  /\ cleaned' = TRUE
                  /\ UNCHANGED <<wsState, sessOpen, drv>>
    /\ UNCHANGED <<appVars, drained, auxVars>>
    /\ UNCHANGED <<websocket, session, nConnects, wire, transcription_buffer,
                   recvVars, sendVars>>

\* websocket.close() has returned: session.close().
CleanupWsClosed ==
    /\ drv = "cleanup_ws" /\ LoopFree
    /\ sessOpen' = sessOpen \ {session}
    /\ drv' = "cleanup_session"
    /\ UNCHANGED <<appVars, logVars, auxVars>>
    /\ UNCHANGED <<websocket, session, wsState, nConnects, wire, audioVars,
                   is_recording, transcription_buffer, recvVars, sendVars>>

\* cleanup that returns after session.close(), the capture stream and the
\* audio subsystem left as they were.
CleanupFinish_keeps_audio ==
    /\ drv = "cleanup_session" /\ LoopFree
    /\ cleaned' = TRUE
    /\ drv' = "idle"
    /\ UNCHANGED <<appVars, reused, raised, drained, auxVars>>
    /\ UNCHANGED <<connVars, wire, audioVars, is_recording,
                   transcription_buffer, recvVars, sendVars>>

\* session.close() has returned: audio_stream.close(), terminate(), and
\* cleanup() returns.
CleanupFinish ==
    /\ drv = "cleanup_session" /\ LoopFree
    /\ audio_stream' = close_stream(audio_stream)
    /\ pyaudio_instance' = terminate(pyaudio_instance)
    /\ reused' = (reused \/ AudioReleased)
    /\ cleaned' = TRUE
    /\ drv' = "idle"
    /\ UNCHANGED <<appVars, raised, drained, auxVars>>
    /\ UNCHANGED <<connVars, wire, is_recording, transcription_buffer,
                   recvVars, sendVars>>

\* ---------------------------------------------------------- stream_file
\* The speeds a caller passes as realtime_factor (any float is taken), and
\* the exit statuses of the decoder: "0", or "1" for a file that is missing
\* or cannot be decoded.
RealtimeFactors == {-1, 0, 1}
ExitStatuses == {"0", "1"}

\* ffmpeg is missing or cannot be started: RuntimeError.  Otherwise the
\* decoder runs and the caller is inside stream_file until it returns.
StreamBegin(send_commit, realtime_factor) ==
    /\ drv = "idle" /\ LoopFree
    /\ stream.pc = "none"
    /\ \/ /\ stream' = [NoStream EXCEPT !.pc = "raised",
                                         !.send_commit = send_commit,
                                         !.realtime_factor = realtime_factor]
          /\ UNCHANGED <<drv, startConn>>
       \/ /\ stream' = [NoStream EXCEPT !.pc = "read",
                                         !.send_commit = send_commit,
                                         !.realtime_factor = realtime_factor]
          /\ drv' = "stream"
          /\ startConn' = [startConn EXCEPT
                              ![FileSender] = IF WsUsable /\ wsState[websocket] = "open"
                                              THEN websocket ELSE 0]
    /\ UNCHANGED <<appVars, logVars, auxVars>>
    /\ UNCHANGED <<connVars, wire, audioVars, is_recording,
                   transcription_buffer, recvVars, cap, produced>>

\* stream_file that does not run on the event loop of the capture task: its
\* write can fall inside the block of a capture loop.
StreamChunk_unserialized ==
    /\ drv = "stream" /\ stream.pc = "read"
    /\ FramesProduced < MaxFrames
    /\ produced' = [produced EXCEPT ![FileSender] = Append(@, Len(@) + 1)]
    /\ wire' = _send_audio_data(AppendMsg(FileSender, Len(produced[FileSender]) + 1))
    /\ UNCHANGED <<appVars, logVars, auxVars>>
    /\ UNCHANGED <<connVars, audioVars, is_recording, transcription_buffer,
                   recvVars, cap, stream, startConn, drv>>

\* proc.stdout.read returns data: one append event through
\* _send_audio_data, then the pacing sleep.
StreamChunk ==
    /\ drv = "stream" /\ stream.pc = "read" /\ LoopFree
    /\ FramesProduced < MaxFrames
    /\ produced' = [produced EXCEPT ![FileSender] = Append(@, Len(@) + 1)]
    /\ wire' = _send_audio_data(AppendMsg(FileSender, Len(produced[FileSender]) + 1))
    /\ UNCHANGED <<appVars, logVars, auxVars>>
    /\ UNCHANGED <<connVars, audioVars, is_recording, transcription_buffer,
                   recvVars, cap, stream, startConn, drv>>

\* proc.stdout.read returns b"": break, then await proc.wait().
StreamEOF ==
    /\ drv = "stream" /\ stream.pc = "read" /\ LoopFree
    /\ stream' = [stream EXCEPT !.pc = "wait"]
    /\ UNCHANGED <<appVars, logVars, auxVars>>
    /\ UNCHANGED <<connVars, wire, audioVars, is_recording,
                   transcription_buffer, recvVars, cap, produced, startConn,
                   drv>>

\* await proc.wait() returns the decoder's exit status, which is not looked
\* at: with send_commit the commit event is sent with websocket.send_str
\* directly; what it raises is caught and printed.
StreamFinish(returncode) ==
    /\ drv = "stream" /\ stream.pc = "wait" /\ LoopFree
    /\ wire' = IF stream.send_commit /\ websocket # 0 /\ send_str_ok(websocket)
               THEN send_str(websocket, CommitMsg)
               ELSE wire
    /\ stream' = [stream EXCEPT !.pc = "done", !.returncode = returncode]
    /\ drv' = "idle"
    /\ UNCHANGED <<appVars, logVars, auxVars>>
    /\ UNCHANGED <<connVars, audioVars, is_recording, transcription_buffer,
                   recvVars, cap, produced, startConn>>

\* ------------------------------------------- stream_file, byte by byte
\* The read loop of stream_file seen at the level of bytes: the decoder
\* writes its PCM output to a pipe and the loop turns each non-empty read
\* into one append event whose audio is the base64 text of the bytes read.
CHUNK_SIZE == 1024
bytes_per_frame == 2
chunk_bytes == CHUNK_SIZE * bytes_per_frame

\* Sizes of the decoder's whole output, in bytes.
DecoderOutputs == {0, 1, chunk_bytes, 3000, 2 * chunk_bytes, 5120}

\* The decoder's output of B bytes: PCM bytes that differ from place to
\* place.
Output(B) == [i \in 1..B |-> (i * 37 + (i \div 256)) % 256]

\* What one read of the pipe can return: StreamReader.read(n) returns the
\* bytes that are buffered, at least one and at most n, without waiting for
\* n of them.
PipeReads == {1, CHUNK_SIZE, chunk_bytes - 1, chunk_bytes}

\* base64.b64encode(data): every 3 bytes give 4 characters of 6 bits each,
\* kept here by their values 0..63; an incomplete last group is padded with
\* "=", kept as b64_pad.
b64_pad == 64

b64encode(data) ==
    LET n == Len(data)
        byte(i) == IF i <= n THEN data[i] ELSE 0
    IN  [j \in 1..(4 * ((n + 2) \div 3)) |->
            LET g == (j - 1) \div 4
                p == (j - 1) % 4
                b0 == byte(3 * g + 1)
                b1 == byte(3 * g + 2)
                b2 == byte(3 * g + 3)
            IN  CASE p = 0 -> b0 \div 4
                  [] p = 1 -> (b0 % 4) * 16 + (b1 \div 16)
                  [] p = 2 -> IF 3 * g + 2 > n THEN b64_pad
                              ELSE (b1 % 16) * 4 + (b2 \div 64)
                  [] p = 3 -> IF 3 * g + 3 > n THEN b64_pad
                              ELSE b2 % 64]

\* audio_event truncated to whole 16-bit samples: an odd last byte of a
\* read is left out and not carried to the next event.
audio_event_whole_samples(data) ==
    b64encode(SubSeq(data, 1, 2 * (Len(data) \div 2)))

\* The audio of the append event made from the bytes of one read.
audio_event(data) == b64encode(data)

\* create_subprocess_exec: the decoder is started and will write B bytes.
create_subprocess_exec(B) ==
    /\ proc.pc = "none"
    /\ proc' = [pc |-> "reading", left |-> B, frames |-> <<>>, total |-> B]
    /\ startConn' = [startConn EXCEPT
                        ![FileSender] = IF WsUsable /\ wsState[websocket] = "open"
                                        THEN websocket ELSE 0]
    /\ UNCHANGED <<appVars, logVars, returned>>
    /\ UNCHANGED <<connVars, wire, audioVars, is_recording,
                   transcription_buffer, recvVars, cap, stream, produced, drv>>

\* data = await proc.stdout.read(chunk_bytes) returns the next k bytes of
\* the output; they are encoded and handed to _send_audio_data as one append
\* event.
stdout_read(k) ==
    /\ proc.pc = "reading"
    /\ Len(proc.frames) < MaxReads
    /\ k >= 1 /\ k <= chunk_bytes /\ k <= proc.left
    /\ LET at == proc.total - proc.left
           data == SubSeq(Output(proc.total), at + 1, at + k)
       IN  proc' = [proc EXCEPT !.left = @ - k,
                                !.frames = Append(@, audio_event(data))]
    /\ wire' = _send_audio_data(AppendMsg(FileSender, Len(proc.frames) + 1))
    /\ UNCHANGED <<appVars, logVars, returned>>
    /\ UNCHANGED <<connVars, audioVars, is_recording, transcription_buffer,
                   recvVars, sendVars, drv>>

\* The read returns b"" at the end of the output: break.
stdout_eof ==
    /\ proc.pc = "reading"
    /\ proc.left = 0
    /\ proc' = [proc EXCEPT !.pc = "done"]
    /\ UNCHANGED <<appVars, logVars, returned>>
    /\ UNCHANGED <<connVars, wire, audioVars, is_recording,
                   transcription_buffer, recvVars, sendVars, drv>>

\* ========================================================= LexiconicApp
\* The menu bar app: the controller (main) thread serves the menu requests,
\* and every accepted start runs async_realtime_transcription on a worker
\* thread with an event loop of its own and a RealtimeTranscriber of its
\* own, kept here by its connection, its recording flag and its buffer.

\* __init__: the key is read from the environment; nothing is active.
LexiconicApp__init__(key) ==
    /\ api_key = NoApp
    /\ api_key' = key
    /\ UNCHANGED <<is_realtime_active, realtime_transcriber, worker, tr,
                   last_transcription, lastCall, nCalls>>
    /\ UNCHANGED transcriberVars
    /\ UNCHANGED pasteVars

\* A menu request is served: the app exists; the requests are counted.
Request(op, outcome) ==
    /\ api_key # NoApp
    /\ nCalls < MaxCalls
    /\ nCalls' = nCalls + 1
    /\ lastCall' = [op |-> op, outcome |-> outcome]
    /\ UNCHANGED <<api_key, last_transcription, transcriberVars>>

\* The accepted start: the flag is set and a worker thread is started.
StartAccepted ==
    /\ \E w \in WorkerIds :
          /\ worker[w].pc = "none"
          /\ \A v \in WorkerIds : v < w => worker[v].pc # "none"
          /\ worker' = [worker EXCEPT ![w].pc = "spawned"]
    /\ is_realtime_active' = TRUE
    /\ last_pasted_length' = 0
    /\ typed' = <<>>
    /\ pasteable' = TRUE
    /\ Request("start", "started")
    /\ UNCHANGED <<realtime_transcriber, tr>>

Rejected(op, outcome) ==
    /\ Request(op, outcome)
    /\ UNCHANGED <<is_realtime_active, realtime_transcriber, worker, tr,
                   pasteVars>>

\* startRealtimeTranscription_ without `if self.is_realtime_active: return`.
startRealtimeTranscription__no_active_check ==
    IF api_key = NoKey
    THEN Rejected("start", "no_key")
    ELSE StartAccepted

\* startRealtimeTranscription_ without `if not self.api_key:`.
startRealtimeTranscription__no_key_check ==
    IF is_realtime_active
    THEN Rejected("start", "already_active")
    ELSE StartAccepted

startRealtimeTranscription_ ==
    IF api_key = NoKey
    THEN Rejected("start", "no_key")
    ELSE IF is_realtime_active
    THEN Rejected("start", "already_active")
    ELSE StartAccepted

\* The flag is cleared and stop_recording() is called on the transcriber the
\* app holds now; an exception of it is caught.
StopAccepted ==
    /\ is_realtime_active' = FALSE
    /\ tr' = IF realtime_transcriber # 0
             THEN [tr EXCEPT ![realtime_transcriber].is_recording = FALSE,
                             ![realtime_transcriber].audio_stream =
                                 stop_stream(@)]
             ELSE tr
    /\ Request("stop", "stopped")
    /\ UNCHANGED <<realtime_transcriber, worker, pasteVars>>

\* stopRealtimeTranscription_ without `if not self.is_realtime_active: return`.
stopRealtimeTranscription__no_active_check == StopAccepted

stopRealtimeTranscription_ ==
    IF ~is_realtime_active
    THEN Rejected("stop", "not_active")
    ELSE StopAccepted

toggleRealtimeTranscription_ ==
    IF is_realtime_active
    THEN stopRealtimeTranscription_
    ELSE startRealtimeTranscription_

\* cleanup() is called on transcriber t: stop_recording(), and the websocket
\* and the capture stream count as closed from the call of cleanup() on.
cleanup_called(trs, t) ==
    [trs EXCEPT ![t].conn = IF @ = "open" THEN "closed" ELSE @,
                ![t].is_recording = FALSE,
                ![t].audio_stream = close_stream(stop_stream(@))]

\* The worker thread runs: a new RealtimeTranscriber replaces the one the
\* app held, and connect() is awaited on it.
WorkerCreate(w) ==
    /\ worker[w].pc = "spawned"
    /\ realtime_transcriber' = w
    /\ tr' = [tr EXCEPT ![w] = [NoTranscriber EXCEPT !.conn = "none"]]
    /\ worker' = [worker EXCEPT ![w].pc = "connect", ![w].on = w]
    /\ UNCHANGED <<api_key, is_realtime_active, last_transcription,
                   lastCall, nCalls>>
    /\ UNCHANGED transcriberVars
    /\ UNCHANGED pasteVars

\* connect() returns.  With a connection, setup_audio(), the receive task and
\* start_recording() follow on the transcriber the app holds now, and the
\* worker is at its `while self.is_realtime_active`; if connect() or
\* setup_audio() raised, the `finally` calls cleanup() on the transcriber the
\* app holds now.
WorkerConnected(w) ==
    /\ worker[w].pc = "connect"
    /\ \E connected, audio \in BOOLEAN :
          LET t == worker[w].on
              opened == IF connected THEN [tr EXCEPT ![t].conn = "open"]
                        ELSE tr
              cur == realtime_transcriber
          IN  IF connected /\ audio
              THEN /\ tr' = [opened EXCEPT ![cur].is_recording = TRUE,
                                             ![cur].audio_stream = "active"]
                   /\ worker' = [worker EXCEPT
                                    ![w] = [NoWorker EXCEPT
                                               !.pc = "poll",
                                               !.listens = cur,
                                               !.captures = cur]]
              ELSE /\ tr' = cleanup_called(opened, cur)
                   /\ worker' = [worker EXCEPT
                                    ![w] = [NoWorker EXCEPT
                                               !.pc = "cleanup",
                                               !.on = cur,
                                               !.failed = TRUE]]
    /\ UNCHANGED <<api_key, is_realtime_active, realtime_transcriber,
                   last_transcription, lastCall, nCalls>>
    /\ UNCHANGED transcriberVars
    /\ UNCHANGED pasteVars

\* `while self.is_realtime_active:` finds the flag set: asyncio.sleep(0.1),
\* during which the worker's event loop runs its other tasks.
WorkerSleep(w) ==
    /\ worker[w].pc = "poll"
    /\ is_realtime_active
    /\ worker' = [worker EXCEPT ![w].pc = "sleep"]
    /\ UNCHANGED <<api_key, is_realtime_active, realtime_transcriber, tr,
                   last_transcription, lastCall, nCalls>>
    /\ UNCHANGED transcriberVars
    /\ UNCHANGED pasteVars

\* The transcripts _handle_response appends: the non-empty ones.
Appended == Transcripts \ {MISSING, ""}

\* While the worker sleeps its receive task handles a completed event: the
\* transcript is appended to the buffer of the transcriber the task reads.
WorkerReceives(w, text) ==
    /\ worker[w].pc = "sleep" /\ ~worker[w].reading
    /\ worker[w].listens # 0
    /\ LET t == worker[w].listens
       IN  /\ tr[t].conn = "open"
           /\ Len(tr[t].buffer) < MaxAppends
           /\ tr' = [tr EXCEPT ![t].buffer = Append(@, text)]
    /\ UNCHANGED <<api_key, is_realtime_active, realtime_transcriber, worker,
                   last_transcription, lastCall, nCalls>>
    /\ UNCHANGED transcriberVars
    /\ UNCHANGED pasteVars

\* transcriptions = self.realtime_transcriber.get_transcriptions();
\* `if transcriptions: self.last_transcription = transcriptions[-1]`
poll(transcriptions) ==
    IF transcriptions # <<>>
    THEN transcriptions[Len(transcriptions)]
    ELSE last_transcription

\* The capture task of worker w's event loop, at `while self.is_recording`
\* with the flag set and a stream: it calls audio_stream.read(CHUNK_SIZE),
\* which blocks the worker thread until a chunk has been recorded.
WorkerReadBegin(w) ==
    /\ worker[w].pc = "sleep" /\ ~worker[w].reading
    /\ worker[w].captures # 0
    /\ tr[worker[w].captures].is_recording
    /\ tr[worker[w].captures].audio_stream # "none"
    /\ worker' = [worker EXCEPT ![w].reading = TRUE]
    /\ UNCHANGED <<api_key, is_realtime_active, realtime_transcriber, tr,
                   last_transcription, lastCall, nCalls>>
    /\ UNCHANGED transcriberVars
    /\ UNCHANGED pasteVars

\* read() returns the chunk or raises; the event is sent or the error is
\* printed, and the task sleeps.
WorkerReadEnd(w) ==
    /\ worker[w].reading
    /\ worker' = [worker EXCEPT ![w].reading = FALSE]
    /\ UNCHANGED <<api_key, is_realtime_active, realtime_transcriber, tr,
                   last_transcription, lastCall, nCalls>>
    /\ UNCHANGED transcriberVars
    /\ UNCHANGED pasteVars

\* str.strip() of a text: the blanks at its two ends removed.
RECURSIVE strip(_)
strip(text) ==
    IF text = "" THEN text
    ELSE IF SubSeq(text, 1, 1) = " " THEN strip(SubSeq(text, 2, Len(text)))
    ELSE IF SubSeq(text, Len(text), Len(text)) = " "
         THEN strip(SubSeq(text, 1, Len(text) - 1))
    ELSE text

\* The applications osascript names as frontmost; MISSING when the script
\* that asks fails.  The development tools are skipped: the name of one of
\* them is part of the frontmost application's name.
FrontmostApps == {"TextEdit", "Terminal", MISSING}
skip_apps == {"Terminal", "iTerm", "iTerm2", "Windsurf", "Visual Studio Code",
              "Xcode", "PyCharm"}
Contains(text, part) ==
    \E i \in 1..(Len(text) - Len(part) + 1) :
        SubSeq(text, i, i + Len(part) - 1) = part
Skipped(frontmost) ==
    frontmost # MISSING /\ \E app \in skip_apps : Contains(frontmost, app)

\* The ends of the keystroke script: it typed the text, it returned a
\* non-zero status, or subprocess.run raised (timeout).
KeystrokeResults == {"ok", "failed", "raised"}

\* handle_auto_paste(transcription): what it leaves in last_pasted_length,
\* what has been typed, and whether the paste went through.
handle_auto_paste(transcription, frontmost, keystroke) ==
    LET same == [last_pasted_length |-> last_pasted_length,
                 typed |-> typed, pasteable |-> pasteable]
        new_content == SubSeq(transcription, last_pasted_length + 1,
                              Len(transcription))
    IN  IF Len(transcription) <= last_pasted_length THEN same
        ELSE IF Len(strip(new_content)) < 2
        THEN [same EXCEPT !.last_pasted_length = Len(transcription)]
        ELSE IF Skipped(frontmost)
        THEN [same EXCEPT !.last_pasted_length = Len(transcription),
                          !.pasteable = FALSE]
        ELSE CASE keystroke = "ok" ->
                    [same EXCEPT !.last_pasted_length = Len(transcription),
                                 !.typed = Append(@, new_content)]
               [] keystroke = "failed" ->
                    [same EXCEPT !.pasteable = FALSE]
               [] keystroke = "raised" ->
                    [same EXCEPT !.last_pasted_length = Len(transcription),
                                 !.pasteable = FALSE]

\* The sleep is over: the worker polls the transcriber the app holds now,
\* auto-pastes the latest transcript (auto_paste_enabled is True, as
\* __init__ sets it) and is back at the `while`.
WorkerPoll(w) ==
    /\ worker[w].pc = "sleep" /\ ~worker[w].reading
    /\ LET transcriptions == tr[realtime_transcriber].buffer
       IN  /\ last_transcription' = poll(transcriptions)
           /\ IF transcriptions = <<>>
              THEN UNCHANGED pasteVars
              ELSE \E frontmost \in FrontmostApps,
                      keystroke \in KeystrokeResults :
                      LET after == handle_auto_paste(
                                       transcriptions[Len(transcriptions)],
                                       frontmost, keystroke)
                      IN  /\ last_pasted_length' = after.last_pasted_length
                          /\ typed' = after.typed
                          /\ pasteable' = after.pasteable
    /\ worker' = [worker EXCEPT ![w].pc = "poll"]
    /\ UNCHANGED <<api_key, is_realtime_active, realtime_transcriber, tr,
                   lastCall, nCalls>>
    /\ UNCHANGED transcriberVars

\* `while self.is_realtime_active:` finds the flag clear: the receive task
\* is cancelled and the `finally` calls cleanup() on the transcriber the app
\* holds now.
WorkerLeave(w) ==
    /\ worker[w].pc = "poll"
    /\ ~is_realtime_active
    /\ tr' = cleanup_called(tr, realtime_transcriber)
    /\ worker' = [worker EXCEPT ![w].pc = "cleanup",
                                ![w].on = realtime_transcriber,
                                ![w].listens = 0]
    /\ UNCHANGED <<api_key, is_realtime_active, realtime_transcriber,
                   last_transcription, lastCall, nCalls>>
    /\ UNCHANGED transcriberVars
    /\ UNCHANGED pasteVars

\* cleanup() has returned; the `finally` of run_realtime_transcription
\* clears the flag and the thread ends.
WorkerExit(w) ==
    /\ worker[w].pc = "cleanup"
    /\ is_realtime_active' = FALSE
    /\ worker' = [worker EXCEPT ![w].pc = "done", ![w].on = 0]
    /\ UNCHANGED <<api_key, realtime_transcriber, tr, last_transcription,
                   lastCall, nCalls>>
    /\ UNCHANGED transcriberVars
    /\ UNCHANGED pasteVars

AppNext ==
    \/ \E key \in KeyValues : LexiconicApp__init__(key)
    \/ startRealtimeTranscription_
    \/ stopRealtimeTranscription_
    \/ toggleRealtimeTranscription_
    \/ \E w \in WorkerIds : WorkerCreate(w)
    \/ \E w \in WorkerIds : WorkerConnected(w)
    \/ \E w \in WorkerIds : WorkerSleep(w)
    \/ \E w \in WorkerIds, text \in Appended : WorkerReceives(w, text)
    \/ \E w \in WorkerIds : WorkerReadBegin(w)
    \/ \E w \in WorkerIds : WorkerReadEnd(w)
    \/ \E w \in WorkerIds : WorkerPoll(w)
    \/ \E w \in WorkerIds : WorkerLeave(w)
    \/ \E w \in WorkerIds : WorkerExit(w)

AppSpec == Init /\ [][AppNext]_vars

\* ================================================== the specifications
\* The caller's methods that every scenario has.
Lifecycle ==
    \/ ConnectBegin
    \/ ConnectEnd
    \/ stop_recording
    \/ CleanupBegin
    \/ CleanupWsClosed
    \/ CleanupFinish

Receiving ==
    \/ ListenStart
    \/ \E text \in Texts : ListenText(text)
    \/ ListenIgnored
    \/ \E kind \in {"ERROR", "CLOSE"} : ListenTransport(kind)
    \/ ListenRaises
    \/ ListenExhausted
    \/ ListenCancel

Capturing ==
    \/ setup_audio
    \/ start_recording
    \/ \E l \in LoopIds : CaptureCheck(l)
    \/ \E l \in LoopIds : CaptureRead(l)
    \/ \E l \in LoopIds : CaptureSend(l)

\* stream_file at real-time speed, the default and what run_test passes.
Streaming ==
    \/ \E send_commit \in BOOLEAN : StreamBegin(send_commit, 1)
    \/ StreamChunk
    \/ StreamEOF
    \/ \E returncode \in ExitStatuses : StreamFinish(returncode)

\* stream_file called with any speed.
StreamingAtAnySpeed ==
    \/ \E send_commit \in BOOLEAN, realtime_factor \in RealtimeFactors :
          StreamBegin(send_commit, realtime_factor)
    \/ StreamChunk
    \/ StreamEOF
    \/ \E returncode \in ExitStatuses : StreamFinish(returncode)

\* The transcriber with every method and task.
Next ==
    \/ Lifecycle
    \/ Receiving
    \/ Capturing
    \/ Streaming
    \/ \E c \in ConnIds : PeerDrop(c)

Spec == Init /\ [][Next]_vars

\* The receive side alone: connect, the receive task, stop and cleanup.
RecvNext ==
    \/ Lifecycle
    \/ Receiving

RecvSpec == Init /\ [][RecvNext]_vars

\* A session whose audio comes from stream_file while the receive task
\* runs, as in test/test_realtime_paris.py.
FileNext ==
    \/ Lifecycle
    \/ Receiving
    \/ Streaming

FileSpec == Init /\ [][FileNext]_vars

\* A live session as main() runs it: connect, the receive task, the capture
\* loop, stop and cleanup, with a service that delivers completed events.
CompletedTexts == {t \in Texts : t.wellformed /\ IsCompleted(t.value)}

DrainNext ==
    \/ Lifecycle
    \/ Capturing
    \/ ListenStart
    \/ \E text \in CompletedTexts : ListenText(text)
    \/ ListenCancel

DrainSpec == Init /\ [][DrainNext]_vars

\* The life of one transcriber under any order of calls: connect (again),
\* setup_audio, start_recording, stream_file, stop_recording and cleanup,
\* with the capture loop.
LifeNext ==
    \/ Lifecycle
    \/ ConnectAgain
    \/ Capturing
    \/ Streaming

LifeSpec == Init /\ [][LifeNext]_vars

\* A transcriber with its receive task and its capture loop under any order
\* of calls, to the end of cleanup(): the loops that a cleanup() finds.
UnblockNext ==
    \/ Lifecycle
    \/ ConnectAgain
    \/ Capturing
    \/ ListenStart
    \/ ListenExhausted
    \/ ListenCancel

UnblockSpec == Init /\ [][UnblockNext]_vars

\* A session whose audio comes from stream_file while the receive task runs
\* and the service delivers completed events, as in
\* test/test_realtime_paris.py, with the caller reading the transcripts.
SnapshotNext ==
    \/ Lifecycle
    \/ ListenStart
    \/ \E text \in CompletedTexts : ListenText(text)
    \/ ListenCancel
    \/ Streaming
    \/ GetTranscriptions
    \/ \E new \in Edits(Held) : ConsumerChanges(new)

SnapshotSpec == Init /\ [][SnapshotNext]_vars

\* A caller that starts the recording again on the same transcriber.
RestartNext ==
    \/ Lifecycle
    \/ Capturing
    \/ StartRecordingAgain

RestartSpec == Init /\ [][RestartNext]_vars

\* A caller that connects, streams a file at a speed of its choice and
\* cleans up, without a receive task.
PacedNext ==
    \/ Lifecycle
    \/ StreamingAtAnySpeed
    \/ \E c \in ConnIds : PeerDrop(c)

PacedSpec == Init /\ [][PacedNext]_vars

\* The read loop of stream_file over the decoder's pipe, on a transcriber
\* that connects and whose connection may go down.
SliceNext ==
    \/ ConnectBegin
    \/ ConnectEnd
    \/ \E c \in ConnIds : PeerDrop(c)
    \/ \E B \in DecoderOutputs : create_subprocess_exec(B)
    \/ \E k \in PipeReads \cup {proc.left} : stdout_read(k)
    \/ stdout_eof

SliceSpec == Init /\ [][SliceNext]_vars

\* The send side: microphone capture and stream_file on connections that
\* may go down, as in main() without the receive task.
SendNext ==
    \/ Lifecycle
    \/ Capturing
    \/ Streaming
    \/ \E c \in ConnIds : PeerDrop(c)

SendSpec == Init /\ [][SendNext]_vars

\* The event loop resumes a capture task whose sleep is over, and a read of
\* the device returns or raises.
CaptureFair ==
    \A l \in LoopIds :
        /\ WF_vars(CaptureCheck(l))
        /\ WF_vars(CaptureRead(l))
        /\ WF_vars(CaptureSend(l))

SendFairSpec == SendSpec /\ CaptureFair

\* ================================================================ claims

\* Of the transcript fields h of the completed events handled, those that
\* carry a non-empty transcript, in the order of handling.
NonEmptyCompleted(h) == SelectSeq(h, LAMBDA x : x \notin {"", MISSING})

\* C1: get_transcriptions() is exactly the non-empty transcripts of the
\* completed events that _handle_response has handled, in the order of
\* handling: none lost, duplicated or reordered, and an empty transcript
\* appends nothing.
C1_TranscriptsInOrder ==
    get_transcriptions = NonEmptyCompleted(completed)

\* "hello", an empty transcript and "world" were handled in that order.
C1_Witness ==
    /\ completed = <<"hello", "", "world">>
    /\ nHandled = 3
    /\ get_transcriptions = <<"hello", "world">>

IsPrefix(a, b) == Len(a) <= Len(b) /\ SubSeq(b, 1, Len(a)) = a

\* C2: the transcript buffer is append-only: every step of every method and
\* task (event handling, stop_recording, cleanup, stream_file) leaves the
\* buffer it found as a prefix of the buffer it leaves.
C2_AppendOnly ==
    [][IsPrefix(transcription_buffer, transcription_buffer')]_vars

\* Two entries were appended, a stream_file call has returned and cleanup
\* has closed the connection and the session.
C2_Witness ==
    /\ transcription_buffer = <<"hello", "world">>
    /\ stream.pc = "done"
    /\ Len(produced[FileSender]) > 0
    /\ drv = "idle"
    /\ websocket # 0 /\ wsState[websocket] = "closed"
    /\ sessOpen = {}

\* The append messages of sender s among the messages w, in their order.
AppendsOf(s, w) == SelectSeq(w, LAMBDA m : m.type = T_append /\ m.src = s)

\* The frames sender s has handed to _send_audio_data: all it produced, less
\* the one a capture loop holds between its read and its send.
Submitted(s) ==
    IF s \in LoopIds /\ cap[s].pc = "send"
    THEN SubSeq(produced[s], 1, Len(produced[s]) - 1)
    ELSE produced[s]

\* The connection that was open when sender s started is the transcriber's
\* websocket and is still open.
StayedOpen(s) ==
    /\ startConn[s] # 0
    /\ websocket = startConn[s]
    /\ wsState[websocket] = "open"

\* C3: while the connection stays open, the append messages written for one
\* sender (a capture loop or stream_file) are exactly its frames, one
\* message per frame, in the order the frames were produced.
C3_OneAppendPerFrame ==
    \A s \in Senders :
        StayedOpen(s) =>
            AppendsOf(s, wire[websocket])
                = [i \in 1..Len(Submitted(s)) |-> AppendMsg(s, Submitted(s)[i])]

\* A sender has produced two frames on a connection that stayed open, and
\* both are on the wire.
C3_Witness ==
    \E s \in Senders :
        /\ StayedOpen(s)
        /\ Len(Submitted(s)) = 2
        /\ Len(AppendsOf(s, wire[websocket])) = 2

\* C4: on every connection the session.update message is the first message
\* written: no append and no commit precedes it.
C4_ConfigFirst ==
    \A c \in ConnIds :
        /\ wire[c] # <<>> => wire[c][1].type = T_session_update
        /\ \A i \in 1..Len(wire[c]) :
              wire[c][i].type \in {T_append, T_commit} =>
                  \E j \in 1..(i - 1) : wire[c][j].type = T_session_update

\* A connection carries an append and a commit, after its configuration.
C4_Witness ==
    \E c \in ConnIds :
        /\ \E i \in 1..Len(wire[c]) : wire[c][i].type = T_append
        /\ \E i \in 1..Len(wire[c]) : wire[c][i].type = T_commit
        /\ wire[c][1] = ConfigMsg

Last(q) == q[Len(q)]

\* This step gives _handle_response one more value: the one just read.
Handles == nHandled' = nHandled + 1
Handled == lastRead'.data.value

\* The latest read gave a JSON text holding an object of one of the types.
LastReadOf(types) ==
    /\ lastRead.type = "TEXT"
    /\ lastRead.data.wellformed
    /\ lastRead.data.value.kind = "object"
    /\ lastRead.data.value.type \in types

IsCompletedWithText(e) ==
    e.kind = "object" /\ e.type = T_completed /\ e.transcript \notin {"", MISSING}

\* C5: handling an `error` event or a transcription `failed` event leaves the
\* receive loop running on its open connection, and a completed event with a
\* non-empty transcript handled next is appended to the buffer.
C5_ErrorEventsNotFatal ==
    [][/\ (Handles /\ Handled.kind = "object"
                   /\ Handled.type \in {T_error, T_failed})
          => /\ listen'.pc = "waiting"
             /\ wsState'[listen'.ws] = "open"
             /\ reports' = reports
       /\ (/\ LastReadOf({T_error, T_failed})
           /\ Handles
           /\ IsCompletedWithText(Handled))
          => transcription_buffer'
                 = Append(transcription_buffer, Handled.transcript)
      ]_vars

\* A completed event and then an error event were handled; the loop is
\* still running on its open connection, with a read to spare.
C5_Witness ==
    /\ nRead = 2 /\ nHandled = 2 /\ nRead < MaxInbound
    /\ completed = <<"hello">>
    /\ LastReadOf({T_error})
    /\ transcription_buffer = <<"hello">>
    /\ listen.pc = "waiting"
    /\ wsState[listen.ws] = "open"

\* This step reads the message m from the websocket.
Reads(m) == nRead' = nRead + 1 /\ lastRead' = m

\* C6: a TEXT message that is not JSON is skipped: the loop keeps running,
\* the buffer is as before, nothing was dispatched; and a JSON text read next
\* is dispatched to _handle_response.
C6_MalformedSkipped ==
    [][/\ Reads(WsText(NotJson))
          => /\ listen'.pc = "waiting"
             /\ transcription_buffer' = transcription_buffer
             /\ nHandled' = nHandled
             /\ completed' = completed
             /\ reports' = reports
       /\ \A t \in Texts :
             (/\ lastRead = WsText(NotJson)
              /\ t.wellformed /\ Reads(WsText(t)))
             => /\ Handles
                /\ IsCompletedWithText(t.value)
                     => transcription_buffer'
                            = Append(transcription_buffer, t.value.transcript)
      ]_vars

\* A completed event was handled, then a text that is not JSON was read and
\* skipped; the loop is still running, with a read to spare.
C6_Witness ==
    /\ nRead = 2 /\ nHandled = 1 /\ nRead < MaxInbound
    /\ lastRead = WsText(NotJson)
    /\ completed = <<"world">>
    /\ transcription_buffer = <<"world">>
    /\ listen.pc = "waiting"

\* C7: every TEXT message that is valid JSON, of any shape, leaves the
\* receive loop running, with nothing printed by the outer handler.
C7_AnyJsonTolerated ==
    [][\A t \in Texts :
          (t.wellformed /\ Reads(WsText(t)))
          => (listen'.pc = "waiting" /\ reports' = reports)
      ]_vars

\* The types _handle_response only prints for or has no branch for; MISSING
\* is an object without a "type" key.
Informational == {T_created, T_started, T_stopped, T_other, MISSING}

\* C8: handling an object whose type is session.created, speech_started,
\* speech_stopped, unrecognised or missing changes neither the buffer, the
\* recording flag nor the connection, and the loop goes on: a JSON text read
\* next is dispatched.
C8_InformationalNoEffect ==
    [][/\ (Handles /\ Handled.kind = "object"
                   /\ Handled.type \in Informational)
          => /\ transcription_buffer' = transcription_buffer
             /\ is_recording' = is_recording
             /\ websocket' = websocket
             /\ wsState' = wsState
             /\ listen'.pc = "waiting"
             /\ reports' = reports
       /\ \A t \in Texts :
             (/\ LastReadOf(Informational)
              /\ t.wellformed /\ Reads(WsText(t)))
             => Handles
      ]_vars

\* Three values were read and handled, none a completed event, the latest
\* an object without a type; the loop is running and nothing was appended.
C8_Witness ==
    /\ nRead = 3 /\ nHandled = 3
    /\ completed = <<>>
    /\ LastReadOf({MISSING})
    /\ transcription_buffer = <<>>
    /\ listen.pc = "waiting"
    /\ websocket # 0 /\ wsState[websocket] = "open"

\* What a read gives when the transport ends the conversation.
TransportEnds == {WsOther("ERROR"), WsOther("CLOSE"), ReadRaised}

\* C9: on an ERROR or CLOSE message, or a read that raises, the receive loop
\* ends, printing the condition once, starting no connect; once ended it
\* reads and dispatches nothing more and prints nothing more.
C9_TransportEndsLoopOnce ==
    [][/\ \A m \in TransportEnds :
             Reads(m) => /\ listen'.pc = "done"
                         /\ reports' = reports + 1
                         /\ nHandled' = nHandled
                         /\ transcription_buffer' = transcription_buffer
                         /\ nConnects' = nConnects
                         /\ drv' = drv
                         /\ websocket' = websocket
       /\ listen.pc = "done"
             => /\ listen' = listen
                /\ history' = history
                /\ reports' = reports
      ]_vars

\* The loop handled a completed event, then read CLOSE and ended with one
\* report, with reads to spare.
C9_Witness ==
    /\ nRead = 2 /\ nRead < MaxInbound
    /\ lastRead = WsOther("CLOSE")
    /\ nHandled = 1 /\ completed = <<"hello">>
    /\ listen.pc = "done"
    /\ reports = 1

\* This step writes an append message of capture loop l to a connection.
WritesAppend(l) ==
    \E c \in ConnIds :
        /\ Len(wire'[c]) = Len(wire[c]) + 1
        /\ Last(wire'[c]).type = T_append
        /\ Last(wire'[c]).src = l

CaptureRunning(l) == cap[l].pc \in {"ready", "read", "send"}

\* C10: with the recording flag cleared, a capture loop writes an append
\* only for the frame it already holds, and its next flag check ends it; an
\* ended loop writes nothing; and a running loop does reach its end once the
\* flag is cleared, unless start_recording sets the flag again first.
C10_StopObserved ==
    /\ [][\A l \in LoopIds :
            /\ (~is_recording /\ WritesAppend(l))
                  => (cap[l].pc = "send" /\ cap'[l].pc = "ready")
            /\ (~is_recording /\ cap[l].pc = "ready" /\ cap'[l] # cap[l])
                  => cap'[l].pc = "done"
            /\ cap[l].pc = "done"
                  => (cap'[l] = cap[l] /\ ~WritesAppend(l))
         ]_vars
    /\ \A l \in LoopIds :
          (~is_recording /\ CaptureRunning(l))
              ~> (cap[l].pc = "done" \/ is_recording)

\* A capture loop that sent a frame has ended after stop_recording.
C10_Witness ==
    \E l \in LoopIds :
        /\ cap[l].pc = "done"
        /\ ~is_recording
        /\ audio_stream = "stopped"
        /\ \E c \in ConnIds : Len(AppendsOf(l, wire[c])) > 0

\* A recording was started on this transcriber.
Started == \E l \in LoopIds : cap[l].pc # "none"

\* C11: stop_recording leaves the receive task and the connection as they
\* are, and a completed event with a transcript that the receive loop reads
\* after the stop, on the connection still open, is appended to the buffer
\* and is the last entry of get_transcriptions().
C11_DrainsAfterStop ==
    [][/\ (is_recording /\ ~is_recording' /\ drv = "idle" /\ drv' = "idle")
          => /\ listen' = listen
             /\ websocket' = websocket
             /\ wsState' = wsState
             /\ sessOpen' = sessOpen
       /\ \A t \in Texts :
             (/\ Started /\ ~is_recording
              /\ t.wellformed /\ IsCompletedWithText(t.value)
              /\ Reads(WsText(t)))
             => /\ transcription_buffer'
                       = Append(transcription_buffer, t.value.transcript)
                /\ get_transcriptions' # <<>>
                /\ Last(get_transcriptions') = t.value.transcript
                /\ listen'.pc = "waiting"
      ]_vars

\* A recording was started and stopped, its capture loop has ended, and a
\* transcript appended after the stop is in the buffer; the receive loop is
\* still running on the open connection.
C11_Witness ==
    /\ drained
    /\ ~is_recording
    /\ \E l \in LoopIds : cap[l].pc = "done"
    /\ get_transcriptions = <<"hello">>
    /\ listen.pc = "waiting"
    /\ websocket # 0 /\ wsState[websocket] = "open"

\* What cleanup() is to leave: the flag clear, the websocket of the
\* transcriber closed, the session it was made from and the session the
\* transcriber holds closed, the capture stream closed and the audio
\* subsystem terminated, where there are any.  (Connection c is made from
\* session c.)
Released ==
    /\ ~is_recording
    /\ websocket # 0 => (wsState[websocket] = "closed" /\ websocket \notin sessOpen)
    /\ session # 0 => session \notin sessOpen
    /\ audio_stream \in {"none", "closed"}
    /\ pyaudio_instance \in {"none", "terminated"}

\* This step is a return of cleanup(): the return after session.close(), or
\* the first return of a call that had nothing to await.
CleanupReturns ==
    \/ drv = "cleanup_session" /\ drv' = "idle"
    \/ drv = "idle" /\ ~cleaned /\ cleaned'

\* C12: when cleanup() returns, from whatever state it was called in, the
\* flag is clear, the connection and its HTTP session are closed, the
\* capture stream is closed and the audio subsystem terminated.
C12_CleanupReleases ==
    [][CleanupReturns => Released']_vars

\* This step is cleanup() calling websocket.close().
ClosesWebsocket == drv = "idle" /\ drv' = "cleanup_ws"

\* C13: cleanup() calls websocket.close() only on a websocket that is not
\* closed, and a closed websocket stays closed: over any number of cleanup()
\* calls each connection is closed at most once; and a cleanup() call raises
\* only on account of a released capture stream, never of the connection.
C13_ClosesConnectionOnce ==
    [][/\ ClosesWebsocket
          => /\ wsState[websocket] # "closed"
             /\ wsState' = [wsState EXCEPT ![websocket] = "closed"]
       /\ \A c \in ConnIds : wsState[c] = "closed" => wsState'[c] = "closed"
       /\ (cleaned /\ drv = "idle" /\ drv' = "cleanup_session")
          => wsState' = wsState
       /\ (raised' /\ ~raised) => StreamReleased
      ]_vars

\* After a cleanup() that returned, a cleanup() call on the same single
\* connection is past its websocket step, with the websocket closed before
\* and after, and has not raised.
C13_Witness ==
    /\ cleaned /\ ~raised
    /\ drv = "cleanup_session"
    /\ nConnects = 1 /\ websocket = 1 /\ wsState[1] = "closed"
    /\ wire[1] # <<>>
    /\ pyaudio_instance = "none"

\* C14: no cleanup() call applies stop_stream, close or terminate to a
\* capture stream or audio subsystem that an earlier cleanup() released, and
\* no cleanup() call raises.
C14_RepeatedCleanupSafe == ~reused /\ ~raised

\* connect() and setup_audio() have not both succeeded on this transcriber:
\* there is no websocket, or the configuration was not written to it, or
\* there is no capture stream.
StartFailed ==
    \/ websocket = 0
    \/ wire[websocket] = <<>>
    \/ audio_stream = "none"

\* Nothing is left open: no connection, no session, no capture resource.
NothingLeft ==
    /\ \A c \in ConnIds : wsState[c] \in {"new", "closed"}
    /\ sessOpen = {}
    /\ audio_stream \in {"none", "closed"}
    /\ pyaudio_instance \in {"none", "terminated"}

\* C15: a cleanup() on a transcriber whose start did not succeed (connect()
\* not called, or called once and failed, or setup_audio() failed) returns
\* with nothing left open; and a cleanup() call raises only after an earlier
\* cleanup() has returned, so this one does not.
C15_CleanupAfterFailedStart ==
    [][/\ (CleanupReturns /\ nConnects <= 1 /\ StartFailed) => NothingLeft'
       /\ (raised' /\ ~raised) => cleaned
      ]_vars

\* cleanup() has returned on a transcriber whose connect() failed when
\* sending the configuration and whose setup_audio() failed in open().
C15_Witness ==
    /\ cleaned /\ ~raised /\ drv = "idle"
    /\ nConnects = 1 /\ websocket = 1 /\ wire[1] = <<>>
    /\ audio_stream = "none" /\ pyaudio_instance = "terminated"
    /\ NothingLeft

\* C16: once a cleanup() has returned on a transcriber, no later step opens
\* a connection, sets the recording flag or starts a capture task, or
\* writes a message.
C16_ClosedIsTerminal ==
    [][cleaned =>
          /\ \A c \in ConnIds : wsState'[c] = "open" => wsState[c] = "open"
          /\ is_recording' => is_recording
          /\ \A l \in LoopIds : cap[l].pc = "none" => cap'[l].pc = "none"
          /\ wire' = wire
      ]_vars

\* The connections of the transcriber whose transport is up.
OpenConnections == {c \in ConnIds : wsState[c] = "open"}

\* C17: a transcriber has at most one open connection at any time.
C17_OneOpenConnection == Cardinality(OpenConnections) <= 1

\* The workers that are in the polling loop of a session, each with the
\* transcriber it made and that transcriber's connection open.
LiveSessions ==
    {w \in WorkerIds : worker[w].pc \in {"poll", "sleep"} /\ tr[w].conn = "open"}

\* C18: at most one live-transcription session exists in the app at any
\* time, however the menu requests interleave with the worker threads.
C18_OneLiveSession == Cardinality(LiveSessions) <= 1

\* What a start request may create or disturb: the flag, the worker threads,
\* the transcribers with their connections, and the transcriber of the app.
SessionState == <<is_realtime_active, realtime_transcriber, worker, tr>>

\* This step serves a start request.
StartRequested == nCalls' = nCalls + 1 /\ lastCall'.op = "start"

\* C19: a start request served while is_realtime_active is true creates no
\* worker thread, no transcriber and no connection, and leaves the flag and
\* the running session as they are.
C19_StartWhileActiveRejected ==
    [][(StartRequested /\ is_realtime_active)
          => /\ SessionState' = SessionState
             /\ transcriberVars' = transcriberVars
             /\ lastCall'.outcome = "already_active"
      ]_vars

\* A start request was rejected while a session was polling on its open
\* connection; no second worker exists.
C19_Witness ==
    /\ lastCall = [op |-> "start", outcome |-> "already_active"]
    /\ is_realtime_active
    /\ worker[1].pc = "poll" /\ tr[1].conn = "open" /\ tr[1].is_recording
    /\ \A w \in WorkerIds \ {1} : worker[w].pc = "none"

\* C20: a start request served with no API key configured leaves the flag
\* false and creates no worker thread, no transcriber and no connection;
\* an app without a key never has any of them.
C20_StartWithoutKeyFails ==
    /\ [][(StartRequested /\ api_key = NoKey)
            => /\ ~is_realtime_active'
               /\ SessionState' = SessionState
               /\ transcriberVars' = transcriberVars
               /\ lastCall'.outcome = "no_key"
         ]_vars
    /\ [](api_key = NoKey
            => /\ ~is_realtime_active
               /\ realtime_transcriber = 0
               /\ \A w \in WorkerIds : /\ worker[w].pc = "none"
                                        /\ tr[w] = NoTranscriber)

\* Start requests were served on an app without a key, the latest rejected
\* for the key; nothing is active and nothing was created.
C20_Witness ==
    /\ api_key = NoKey
    /\ nCalls = 2
    /\ lastCall = [op |-> "start", outcome |-> "no_key"]
    /\ ~is_realtime_active
    /\ \A w \in WorkerIds : worker[w].pc = "none" /\ tr[w] = NoTranscriber

\* This step serves a stop request.
StopRequested == nCalls' = nCalls + 1 /\ lastCall'.op = "stop"

\* C21: a stop request served while is_realtime_active is false changes
\* nothing: not the flag, the transcriber of the app, any transcriber's
\* recording flag, connection or buffer, the worker threads or the latest
\* transcription; no method of a transcriber is called, and the request
\* returns as not active.
C21_StopWhileInactiveNoOp ==
    [][(StopRequested /\ ~is_realtime_active)
          => /\ SessionState' = SessionState
             /\ last_transcription' = last_transcription
             /\ transcriberVars' = transcriberVars
             /\ lastCall'.outcome = "not_active"
      ]_vars

\* A stop request was served as not active while the transcriber of the app
\* was recording on its open connection (the worker came out of connect()
\* after an earlier stop): the recording is as it was.
C21_Witness ==
    /\ lastCall = [op |-> "stop", outcome |-> "not_active"]
    /\ ~is_realtime_active
    /\ realtime_transcriber # 0
    /\ tr[realtime_transcriber].conn = "open"
    /\ tr[realtime_transcriber].is_recording

\* Worker w ends a start that failed in connect() or setup_audio().
FailedStartEnds(w) ==
    /\ worker[w].failed
    /\ worker[w].pc = "cleanup"
    /\ worker'[w].pc = "done"

\* C22: a start whose connect() or setup_audio() fails ends without retry:
\* when its worker ends, the connection the session opened is closed, its
\* transcriber is not recording and the flag is false; the worker never goes
\* back to connect(); and a start request served afterwards, with the flag
\* false, is accepted.
C22_FailedStartEnds ==
    /\ [][\A w \in WorkerIds :
            /\ FailedStartEnds(w)
                  => /\ tr'[w].conn # "open"
                     /\ ~tr'[w].is_recording
                     /\ ~is_realtime_active'
            /\ worker[w].pc \in {"cleanup", "done"}
                  => worker'[w].pc \in {"cleanup", "done"}
         ]_vars
    /\ [][(StartRequested /\ ~is_realtime_active /\ api_key # NoKey)
            => /\ lastCall'.outcome = "started"
               /\ is_realtime_active'
         ]_vars

\* The polling loop of worker w ends: the session is over.
SessionEnds(w) == worker[w].pc = "poll" /\ worker'[w].pc = "cleanup"

\* C28: when a live session ends with a non-empty transcript buffer,
\* last_transcription is the final entry of that session's buffer.
C28_LatestIsLastEntry ==
    [][\A w \in WorkerIds :
          (SessionEnds(w) /\ tr[w].buffer # <<>>)
              => last_transcription' = tr[w].buffer[Len(tr[w].buffer)]
      ]_vars

\* The capture loops that are inside their block: a frame was read, or is
\* being read, and its message is being sent.
InSendBlock == {l \in LoopIds : cap[l].pc \in {"read", "send"}}

\* The step writes exactly one message, to one connection.
WritesOne ==
    \E c \in ConnIds :
        /\ Len(wire'[c]) = Len(wire[c]) + 1
        /\ SubSeq(wire'[c], 1, Len(wire[c])) = wire[c]
        /\ \A d \in ConnIds \ {c} : wire'[d] = wire[d]

\* The sender of the message that the step writes.
Written == LET c == CHOOSE d \in ConnIds : wire'[d] # wire[d]
           IN  wire'[c][Len(wire'[c])]

\* C23: the sends on a connection exclude each other.  A step that writes
\* writes one whole message after those already written; while a capture
\* loop is inside its send block no other sender (another capture loop,
\* stream_file with an append or with the commit, connect with the
\* configuration) writes, and no two loops are inside their blocks at once.
C23_SendsExclusive ==
    /\ [][wire' # wire
            => /\ WritesOne
               /\ \A l \in InSendBlock :
                     Written.type = T_append /\ Written.src = l
         ]_vars
    /\ [](Cardinality(InSendBlock) <= 1)

\* Two senders are active on one open connection: stream_file has written
\* a frame after the configuration and is between two reads, and a capture
\* loop is inside its send block with a frame it has not written yet.
C23_Witness ==
    /\ WsUsable /\ wsState[websocket] = "open"
    /\ drv = "stream" /\ stream.pc = "read"
    /\ wire[websocket] = <<ConfigMsg, AppendMsg(FileSender, 1)>>
    /\ \E l \in LoopIds : cap[l].pc = "send" /\ is_recording

\* stream_file hands an append event to _send_audio_data in this step.
FileAppendSubmitted == produced'[FileSender] # produced[FileSender]

\* stream_file sends its commit event in this step.
CommitSubmitted ==
    stream.pc = "wait" /\ stream'.pc # "wait" /\ stream.send_commit

\* Capture loop l hands the append event it built to _send_audio_data in this
\* step.
LoopAppendSubmitted(l) ==
    cap[l].pc = "send" /\ cap'[l].pc # "send" /\ WsUsable

\* C24: an outbound event given to the sending code is written to the
\* connection, or the failure (no open connection, or a send the connection
\* rejects) reaches the caller: stream_file raises, the capture loop fails.
\* No event is dropped while its sender goes on as if it had been sent.
C24_SendFailureReachesCaller ==
    [][/\ (FileAppendSubmitted \/ CommitSubmitted)
            => (wire' # wire \/ stream'.pc = "raised")
       /\ \A l \in LoopIds :
            LoopAppendSubmitted(l) => (wire' # wire \/ cap'[l].pc = "failed")
      ]_vars

\* C25: a read of the capture device that raises is fatal to the capture
\* loop: once a read of loop l has raised, the loop does not read the device
\* again, and what it does next is to end.
C25_CaptureErrorFatal ==
    [][\A l \in LoopIds :
          (cap[l].err /\ cap'[l].pc # cap[l].pc) => cap'[l].pc = "done"
      ]_vars

\* The receive loop waits for a frame on a connection that is not closed:
\* nothing on this side ends its wait.
ReceiveBlocked == listen.pc = "waiting" /\ wsState[listen.ws] # "closed"

\* C26: cleanup() unblocks the loops.  When a cleanup() call has returned,
\* the receive loop is not left waiting on a connection that is still up,
\* and the recording flag is clear, so that a capture loop ends at its next
\* check.
C26_CleanupUnblocksLoops ==
    [][CleanupReturns => (~ReceiveBlocked' /\ ~is_recording')]_vars

\* This step is a call of get_transcriptions(); this step is a change the
\* consumer makes to the list it holds.
GetStep == returned'.calls = returned.calls + 1
EditStep == returned'.edits = returned.edits + 1

\* C27: get_transcriptions() returns a copy.  The call gives the items of
\* the buffer; no later step but the consumer's own changes the list it was
\* given, whatever is appended to the buffer; and a change the consumer
\* makes to its list leaves the buffer, and so what later calls return, as
\* it was.
C27_ReturnsCopy ==
    [][/\ GetStep => Held' = transcription_buffer
       /\ (returned.obj # "none" /\ ~GetStep /\ ~EditStep) => Held' = Held
       /\ EditStep => transcription_buffer' = transcription_buffer
      ]_vars

\* The caller was given <<"hello">> and appended an entry of its own to it;
\* the buffer has since received "world": neither list shows the other's
\* change.
C27_Witness ==
    /\ returned.obj # "none"
    /\ returned.edits = 1
    /\ Held = <<"hello", "edit">>
    /\ transcription_buffer = <<"hello", "world">>

\* The receive task is waiting on its open connection while the caller is
\* inside stream_file, between two of its awaits.
ListeningWhileStreaming ==
    /\ drv = "stream" /\ LoopFree
    /\ listen.pc = "waiting" /\ wsState[listen.ws] = "open"
    /\ nRead < MaxInbound

b64decode(text) ==
    LET len == Len(text)
        pads == Cardinality({j \in 1..len : text[j] = b64_pad})
        s(j) == IF text[j] = b64_pad THEN 0 ELSE text[j]
    IN  [i \in 1..(3 * (len \div 4) - pads) |->
            LET g == (i - 1) \div 3
                q == (i - 1) % 3
            IN  CASE q = 0 -> s(4 * g + 1) * 4 + (s(4 * g + 2) \div 16)
                  [] q = 1 -> (s(4 * g + 2) % 16) * 16 + (s(4 * g + 3) \div 4)
                  [] q = 2 -> (s(4 * g + 3) % 4) * 64 + s(4 * g + 4)]

\* C30: stream_file slices the decoder output into fixed-size frames: once
\* the output of B bytes has been read to its end, the number of append
\* events is within one of B / chunk_bytes and every frame but the last
\* carries exactly chunk_bytes bytes, whatever the reads of the pipe return.
C30_FixedSizeFrames ==
    proc.pc = "done" =>
        /\ Len(proc.frames) >= (proc.total \div chunk_bytes) - 1
        /\ Len(proc.frames) <= (proc.total \div chunk_bytes) + 1
        /\ \A i \in 1..(Len(proc.frames) - 1) :
              Len(b64decode(proc.frames[i])) = chunk_bytes

\* A commit event is on some connection.
CommitWritten ==
    \E c \in ConnIds : \E i \in 1..Len(wire[c]) : wire[c][i].type = T_commit

\* C31: stream_file fails with an error when the input path does not exist
\* or the decoder exits with a non-zero status: once the decoder has exited
\* with a non-zero status the call has raised, it has not returned normally
\* and no commit has been written.
C31_DecoderFailureRaises ==
    stream.returncode \notin {"None", "0"} =>
        /\ stream.pc = "raised"
        /\ ~CommitWritten

\* C32: stream_file rejects a realtime_factor of 0 or less: the call fails
\* before it sends any audio; it produces no frame and does not return
\* normally.
C32_SpeedFactorRejected ==
    (stream.pc # "none" /\ stream.realtime_factor <= 0) =>
        /\ stream.pc # "done"
        /\ produced[FileSender] = <<>>

\* The controller thread serves an accepted stop in this step, and
\* stop_recording() applies stop_stream() to the capture stream of the
\* transcriber the app holds.
ControllerStopsStream ==
    /\ nCalls' = nCalls + 1
    /\ lastCall'.outcome = "stopped"
    /\ realtime_transcriber # 0
    /\ tr[realtime_transcriber].audio_stream # "none"

\* A capture loop on a worker thread is inside read() on the capture stream
\* of transcriber t.
InsideRead(t) ==
    \E w \in WorkerIds : worker[w].reading /\ worker[w].captures = t

\* C33: the capture device handle is operated on by one activity at a time:
\* the controller thread issues no stop_stream() on a capture stream while
\* a capture loop on a worker thread is inside read() on that stream.
C33_CaptureHandleExclusive ==
    [][ControllerStopsStream => ~InsideRead(realtime_transcriber)]_vars

\* The places of the commit events: connection and index.
Commits ==
    UNION {{<<c, i>> : i \in {j \in 1..Len(wire[c]) :
                                 wire[c][j].type = T_commit}} :
           c \in ConnIds}

\* C34: stream_file with send_commit writes exactly one commit, after the
\* last append of that stream and after the decoder has exited; without
\* send_commit it writes none.  No commit is on a connection before the
\* call has returned; once it has returned normally there is one commit if
\* send_commit was given, behind every append of the stream on that
\* connection, and none otherwise.
C34_OneCommitAtEnd ==
    /\ stream.pc # "done" => Commits = {}
    /\ stream.pc = "done" =>
          /\ Cardinality(Commits) = IF stream.send_commit THEN 1 ELSE 0
          /\ \A ci \in Commits :
                \A j \in 1..Len(wire[ci[1]]) :
                    (wire[ci[1]][j].type = T_append
                       /\ wire[ci[1]][j].src = FileSender) => j < ci[2]

NoWorkerRunning == \A w \in WorkerIds : worker[w].pc \in {"none", "done"}

\* C36: every connection a session opened is closed once the session has
\* been stopped or has failed: when no worker thread is left to run
\* cleanup(), no transcriber's websocket is open.
C36_ConnectionsClosed ==
    NoWorkerRunning => \A t \in WorkerIds : tr[t].conn # "open"

\* Worker w begins its teardown in this step: cleanup() is called.
TeardownBegins(w) == worker[w].pc # "cleanup" /\ worker'[w].pc = "cleanup"

\* Worker w ends in this step: the flag is reset.
TeardownEnds(w) == worker[w].pc = "cleanup" /\ worker'[w].pc = "done"

\* A session started after that of worker w has its worker thread running.
NewerSession(w) ==
    \E v \in WorkerIds : v > w /\ worker[v].pc \notin {"none", "done"}

\* C37: the end of a session's worker touches only what that worker started:
\* its cleanup() goes to the transcriber it created, and it does not clear
\* the flag that a newer session, whose worker is running, has set.
C37_TeardownOwnSessionOnly ==
    [][\A w \in WorkerIds :
          /\ TeardownBegins(w) => worker'[w].on = w
          /\ (TeardownEnds(w) /\ is_realtime_active /\ NewerSession(w))
                => is_realtime_active'
      ]_vars

\* The capture tasks that have not ended.
CaptureLoops == {l \in LoopIds : CaptureRunning(l)}

\* C38: at most one capture loop runs per transcriber at any time, also when
\* start_recording() is called again, with or without a stop_recording()
\* that the previous loop has not yet observed.
C38_OneCaptureLoop == Cardinality(CaptureLoops) <= 1

\* The audio bytes of a sequence of append events, in order.
RECURSIVE AudioOf(_)
AudioOf(frames) ==
    IF frames = <<>> THEN <<>>
    ELSE AudioOf(SubSeq(frames, 1, Len(frames) - 1))
            \o b64decode(frames[Len(frames)])

\* C39: while the connection stays open, the append events of one
\* stream_file call are written one per read, in order, and the
\* concatenation of their audio is the decoder's output as far as it has
\* been read: nothing dropped, duplicated or reordered; the stream ends only
\* when the output is exhausted, with all of it sent.
C39_AudioIsDecoderOutput ==
    (proc.pc # "none" /\ StayedOpen(FileSender)) =>
        /\ AppendsOf(FileSender, wire[websocket])
              = [i \in 1..Len(proc.frames) |-> AppendMsg(FileSender, i)]
        /\ AudioOf(proc.frames)
              = SubSeq(Output(proc.total), 1, proc.total - proc.left)
        /\ proc.pc = "done" => AudioOf(proc.frames) = Output(proc.total)

\* A decoder output of 3000 bytes was read to its end in three reads, one
\* of a single byte, on a connection that stayed open, and the three events
\* are on the wire.
C39_Witness ==
    /\ proc.pc = "done" /\ proc.total = 3000
    /\ StayedOpen(FileSender)
    /\ Len(proc.frames) = 3
    /\ Len(b64decode(proc.frames[1])) = 1
    /\ Len(AppendsOf(FileSender, wire[websocket])) = 3

\* Worker w polls the buffer in this step.
PollStep(w) == worker[w].pc = "sleep" /\ worker'[w].pc = "poll"

\* C40: with auto-paste enabled and a paste-eligible frontmost application,
\* every transcript segment appended to the buffer during a live session is
\* typed in full exactly once: after each poll of the session's buffer, what
\* has been typed since the start is the segments of the buffer, one text
\* per segment, in order.
C40_EachSegmentTypedOnce ==
    [][\A w \in WorkerIds :
          (PollStep(w) /\ pasteable')
              => typed' = tr[realtime_transcriber].buffer
      ]_vars
====
